---- MODULE Spec2Model ----
(***************************************************************************)
(* Model of src/predict.py (fofr/cog-become-image): the Predictor that     *)
(* resets the workspace, normalizes two uploaded images, screens them,     *)
(* patches the ComfyUI workflow template, drives the engine through one    *)
(* run, collects the produced files and screens them again.                *)
(*                                                                         *)
(* One predict call is a frame call[s] held by a worker slot s.  The host  *)
(* (cog) runs predict on a single worker, so Spec uses slot 1 only.        *)
(* SpecInterleaved lets the steps of two calls interleave, which nothing   *)
(* in predict.py excludes; SpecNormalize is the normalization of the two   *)
(* uploads on every pair of a wider set of uploads.                        *)
(***************************************************************************)
EXTENDS Integers, Sequences, FiniteSets, TLC

VARIABLES
    workflow_json,  \* the template text read at import (predict.py:15-16)
    engine,         \* the ComfyUI process: the work queued in it
    inputDir,       \* INPUT_DIR: whether it exists, and its listing
    outputDir,      \* OUTPUT_DIR
    tempDir,        \* COMFYUI_TEMP_OUTPUT_DIR
    callNo,         \* number of predict calls begun so far
    call            \* call[s]: the frame of the predict call running on slot s

vars == <<workflow_json, engine, inputDir, outputDir, tempDir, callNo, call>>

---------------------------------------------------------------------------
(* Bounds of the model.                                                    *)

MaxCalls == 2       \* predict calls per behaviour
MaxEntries == 2     \* entries the engine leaves at the top of OUTPUT_DIR

Slots == {1, 2}

---------------------------------------------------------------------------
(* Values.                                                                 *)

\* Python's None.
None == [none |-> TRUE]

\* A directory that does not exist (os.path.exists is False).
Absent == [exists |-> FALSE, listing |-> <<>>]

\* A directory that exists, with the sequence os.listdir returns for it.
Present(listing) == [exists |-> TRUE, listing |-> listing]

\* Python integers wider than 31 bits: hi * 2^16 + lo, 0 <= lo < 2^16.
Wide(hi, lo) == [hi |-> hi, lo |-> lo]

LeqW(a, b) == a.hi < b.hi \/ (a.hi = b.hi /\ a.lo <= b.lo)

\* 2**32 - 1 (predict.py:198)
SeedMax == Wide(65535, 65535)

\* Integers the seed argument and the random generator are sampled from:
\* -1, 0, 2^32 - 1, 2^32.
IntSamples == {Wide(-1, 65535), Wide(0, 0), SeedMax, Wide(65536, 0)}

\* random.randint(a, b): any integer N with a <= N <= b.
randint(a, b) == {n \in IntSamples : LeqW(a, n) /\ LeqW(n, b)}

---------------------------------------------------------------------------
(* Files and directories.  A listing is the sequence os.listdir returns;   *)
(* an entry records its name, its kind, the call that created it (0: left  *)
(* over from before the process started) and, for a directory, its own     *)
(* listing.                                                                *)

File(name, by, content) ==
    [name |-> name, kind |-> "file", by |-> by, content |-> content,
     kids |-> <<>>]

Dir(name, by, kids) ==
    [name |-> name, kind |-> "dir", by |-> by, content |-> None,
     kids |-> kids]

\* Neither a regular file nor a directory (a dangling link, a socket).
Other(name, by) ==
    [name |-> name, kind |-> "other", by |-> by, content |-> None,
     kids |-> <<>>]

Range(seq) == {seq[i] : i \in 1..Len(seq)}

NamesOf(listing) == {listing[i].name : i \in 1..Len(listing)}

\* open(path, "w") / shutil.copy / Image.save: replace the entry of that
\* name, or add one.
WriteEntry(listing, e) ==
    IF e.name \in NamesOf(listing)
    THEN [i \in 1..Len(listing) |->
            IF listing[i].name = e.name THEN e ELSE listing[i]]
    ELSE Append(listing, e)

RECURSIVE WriteAll(_, _)
WriteAll(listing, es) ==
    IF es = <<>> THEN listing
    ELSE WriteAll(WriteEntry(listing, Head(es)), Tail(es))

\* os.listdir(d)
Listing(d) == d.listing

---------------------------------------------------------------------------
(* Uploaded images.  ext is the extension of the uploaded path as written; *)
(* exif says whether the file carries an EXIF block, whether the block has *)
(* the Orientation tag, and the tag's value; a malformed block is present  *)
(* but cannot be parsed as written.                                        *)

Upload(name, ext, block, tag, o) ==
    [name |-> name, ext |-> ext, block |-> block, tag |-> tag, o |-> o,
     malformed |-> FALSE]

Malformed(name, ext) ==
    [Upload(name, ext, TRUE, FALSE, 0) EXCEPT !.malformed = TRUE]

Uploads ==
    {Upload("face", ".JPG", TRUE, TRUE, 6),
     Upload("style", ".png", FALSE, FALSE, 0),
     Upload("anim", ".gif", FALSE, FALSE, 0)}

\* The uploads the normalization is examined on: every supported extension
\* in both cases, every orientation the code tells apart, a mirrored one, a
\* block without the tag, no block, a block that cannot be parsed, and
\* names the code does not support.
AllUploads ==
    Uploads \cup
    {Upload("upright", ".jpg", TRUE, TRUE, 1),
     Upload("mirrored", ".jpg", TRUE, TRUE, 2),
     Upload("flipped", ".jpeg", TRUE, TRUE, 3),
     Upload("left", ".JPEG", TRUE, TRUE, 8),
     Upload("untagged", ".jpg", TRUE, FALSE, 0),
     Upload("plain", ".jpg", FALSE, FALSE, 0),
     Malformed("broken", ".jpg"),
     Upload("shout", ".PNG", FALSE, FALSE, 0),
     Upload("web", ".webp", FALSE, FALSE, 0),
     Upload("WEB", ".WEBP", FALSE, FALSE, 0),
     Upload("doc", ".txt", FALSE, FALSE, 0),
     Upload("bare", "", FALSE, FALSE, 0)}

\* str.lower() on the extensions that occur.
lower(ext) ==
    CASE ext = ".JPG" -> ".jpg"
      [] ext = ".JPEG" -> ".jpeg"
      [] ext = ".PNG" -> ".png"
      [] ext = ".WEBP" -> ".webp"
      [] ext = ".GIF" -> ".gif"
      [] OTHER -> ext

\* The exceptions the orientation block swallows (predict.py:51).
Swallowed == {"KeyError", "AttributeError"}

\* predict.py:40-45: what reading exif[orientation] can do.  Without an
\* EXIF block image._getexif() returns None and .items() raises
\* AttributeError; without the tag exif[orientation] raises KeyError.  On a
\* block that cannot be parsed Pillow returns None, returns the tags it
\* could read, or raises from its TIFF parser (SyntaxError: not a TIFF
\* file).
getexif(input_file) ==
    IF ~input_file.block THEN {[exc |-> "AttributeError", o |-> 0]}
    ELSE IF input_file.malformed
    THEN {[exc |-> "AttributeError", o |-> 0], [exc |-> "KeyError", o |-> 0],
          [exc |-> "SyntaxError", o |-> 0]}
    ELSE IF ~input_file.tag THEN {[exc |-> "KeyError", o |-> 0]}
    ELSE {[exc |-> "", o |-> input_file.o]}

\* predict.py:45-54: the rotation applied to a JPEG whose orientation was
\* read as exif.
rotation(exif) ==
    IF exif.exc \in Swallowed THEN 0
    ELSE CASE exif.o = 3 -> 180
           [] exif.o = 6 -> 270
           [] exif.o = 8 -> 90
           [] OTHER -> 0

\* Predictor.handle_input_file: what it returns or raises, and the file it
\* writes into INPUT_DIR, when reading the orientation does exif.
handle_input_file(input_file, filename, by, exif) ==
    LET file_extension == lower(input_file.ext) IN
    IF file_extension \in {".jpg", ".jpeg"}
    THEN IF exif.exc \notin Swallowed \cup {""}
         THEN [raised |-> TRUE,
               final_filename |-> "",
               written |-> <<>>,
               exc |-> exif.exc,
               error |-> "not a TIFF file"]
         ELSE [raised |-> FALSE,
               final_filename |-> filename \o ".png",
               written |-> <<File(filename \o ".png", by,
                                  [src |-> input_file.name, encoded |-> "png",
                                   rotate |-> rotation(exif)])>>,
               exc |-> "",
               error |-> ""]
    ELSE IF file_extension \in {".png", ".webp"}
    THEN [raised |-> FALSE,
          final_filename |-> filename \o file_extension,
          written |-> <<File(filename \o file_extension, by,
                             [src |-> input_file.name, encoded |-> "copy",
                              rotate |-> 0])>>,
          exc |-> "",
          error |-> ""]
    ELSE [raised |-> TRUE,
          final_filename |-> "",
          written |-> <<>>,
          exc |-> "ValueError",
          error |-> "Unsupported file type: " \o file_extension]

---------------------------------------------------------------------------
(* Predictor.log_and_collect_files.                                        *)

Sentinel == "__MACOSX"

\* Variant: the files of a subdirectory are added after the rest of its
\* parent's listing instead of where the subdirectory is met.
RECURSIVE log_and_collect_files_dirs_last(_, _)
log_and_collect_files_dirs_last(listing, directory) ==
    IF listing = <<>> THEN <<>>
    ELSE LET f == Head(listing)
             path == directory \o "/" \o f.name
             rest == log_and_collect_files_dirs_last(Tail(listing), directory)
         IN  IF f.name = "__MACOSX" THEN rest
             ELSE IF f.kind = "file" THEN <<path>> \o rest
             ELSE IF f.kind = "dir"
             THEN rest \o log_and_collect_files_dirs_last(f.kids, path)
             ELSE rest

RECURSIVE log_and_collect_files(_, _)
log_and_collect_files(listing, directory) ==
    IF listing = <<>> THEN <<>>
    ELSE LET f == Head(listing)
             path == directory \o "/" \o f.name
             rest == log_and_collect_files(Tail(listing), directory)
         IN  IF f.name = Sentinel THEN rest
             ELSE IF f.kind = "file" THEN <<path>> \o rest
             ELSE IF f.kind = "dir"
             THEN log_and_collect_files(f.kids, path) \o rest
             ELSE rest

OUTPUT_DIR == "/tmp/outputs"

---------------------------------------------------------------------------
(* The workflow template.  The text of become-image-api.json is a sequence *)
(* of node entries, each an identifier, a class_type and the (field,       *)
(* value) pairs of its "inputs" object, in the order they are written.     *)

Node(id, class_type, inputs) ==
    [id |-> id, class_type |-> class_type, inputs |-> inputs]

FullTemplate ==
    <<Node("1", "CheckpointLoaderSimple", <<<<"ckpt_name", "model.safetensors">>>>),
      Node("2", "PromptLoader",
           <<<<"positive", "a person">>, <<"negative", "">>, <<"style", "none">>>>),
      Node("22", "LoadImage", <<<<"image", "person.png">>>>),
      Node("41", "ApplyInstantID", <<<<"weight", 100>>, <<"start_at", 0>>>>),
      Node("75", "KSampler",
           <<<<"seed", Wide(0, 7)>>, <<"steps", 20>>, <<"cfg", 200>>,
             <<"denoise", 100>>>>),
      Node("79", "ControlNetApply", <<<<"strength", 80>>>>),
      Node("81", "IPAdapterApply", <<<<"weight", 75>>, <<"noise", 30>>>>),
      Node("83", "LoadImage", <<<<"image", "become.png">>>>),
      Node("85", "RepeatLatentBatch", <<<<"multiply_by", 2>>>>)>>

\* The node identifiers update_workflow indexes (predict.py:83-114).
PatchedNodes == {"22", "83", "2", "79", "41", "81", "75", "85"}

\* The template with one node left out.
Without(id) == SelectSeq(FullTemplate, LAMBDA n : n.id # id)

\* The template whose batch node has no multiply_by input yet.
LackingField ==
    [i \in 1..Len(FullTemplate) |->
        IF FullTemplate[i].id = "85"
        THEN Node("85", "RepeatLatentBatch", <<<<"amount", 1>>>>)
        ELSE FullTemplate[i]]

Templates == {FullTemplate, LackingField} \cup {Without(id) : id \in PatchedNodes}

\* The greatest member of a non-empty set of indices (a repeated JSON key
\* keeps its last value).
Last(indices) == CHOOSE i \in indices : \A j \in indices : j <= i

\* json.loads of an "inputs" object.
json_object(pairs) ==
    [k \in {pairs[i][1] : i \in 1..Len(pairs)} |->
        pairs[Last({i \in 1..Len(pairs) : pairs[i][1] = k})][2]]

\* json.loads(workflow_json): a fresh dict of node id -> node.
json_loads(text) ==
    [id \in {text[i].id : i \in 1..Len(text)} |->
        LET n == text[Last({i \in 1..Len(text) : text[i].id = id})]
        IN  [class_type |-> n.class_type, inputs |-> json_object(n.inputs)]]

---------------------------------------------------------------------------
(* Predictor.update_workflow.  It mutates the dict it is given and returns *)
(* nothing; a missing key raises KeyError at that statement and leaves the *)
(* dict as far as it was written.                                          *)

\* d[k] = v on a Python dict.
SetItem(d, k, v) == [x \in DOMAIN d \cup {k} |-> IF x = k THEN v ELSE d[x]]

\* Variant: the user fragment is interpolated whether or not it is empty.
negative_text_always(negative_prompt) ==
    "nsfw, nude, " \o negative_prompt
        \o ", soft, blurry, ugly, broken, watermark"

\* predict.py:92-97
negative_text(negative_prompt) ==
    IF negative_prompt # ""
    THEN "nsfw, nude, " \o negative_prompt
             \o ", soft, blurry, ugly, broken, watermark"
    ELSE "nsfw, nude, soft, blurry, ugly, broken, watermark"

\* The assignments of update_workflow, in statement order.
Assignments(kwargs) ==
    <<<<"22", "image", kwargs.filename>>,
      <<"83", "image", kwargs.image_to_become_filename>>,
      <<"2", "positive", kwargs.prompt \o ", sharp, high quality">>,
      <<"2", "negative", negative_text(kwargs.negative_prompt)>>,
      <<"79", "strength", kwargs.control_depth_strength>>,
      <<"41", "weight", kwargs.instant_id_strength>>,
      <<"81", "weight", kwargs.image_to_become_strength>>,
      <<"81", "noise", kwargs.image_to_become_noise>>,
      <<"75", "denoise", kwargs.denoising_strength>>,
      <<"75", "seed", kwargs.seed>>,
      <<"75", "cfg", kwargs.prompt_strength>>,
      <<"85", "multiply_by", kwargs.number_of_images>>>>

\* Variant: a node the template lacks is skipped (workflow.get(node)).
RECURSIVE ApplyAssignments_skip(_, _)
ApplyAssignments_skip(workflow, todo) ==
    IF todo = <<>> THEN [raised |-> FALSE, workflow |-> workflow, error |-> ""]
    ELSE LET node == Head(todo)[1]
             field == Head(todo)[2]
             value == Head(todo)[3]
         IN  IF node \notin DOMAIN workflow
             THEN ApplyAssignments_skip(workflow, Tail(todo))
             ELSE ApplyAssignments_skip(
                      [workflow EXCEPT ![node] =
                          [@ EXCEPT !.inputs = SetItem(@, field, value)]],
                      Tail(todo))

RECURSIVE ApplyAssignments(_, _)
ApplyAssignments(workflow, todo) ==
    IF todo = <<>> THEN [raised |-> FALSE, workflow |-> workflow, error |-> ""]
    ELSE LET node == Head(todo)[1]
             field == Head(todo)[2]
             value == Head(todo)[3]
         IN  IF node \notin DOMAIN workflow
             THEN [raised |-> TRUE, workflow |-> workflow,
                   error |-> "KeyError: " \o node]
             ELSE IF "inputs" \notin DOMAIN workflow[node]
             THEN [raised |-> TRUE, workflow |-> workflow,
                   error |-> "KeyError: inputs"]
             ELSE ApplyAssignments(
                      [workflow EXCEPT ![node] =
                          [@ EXCEPT !.inputs = SetItem(@, field, value)]],
                      Tail(todo))

update_workflow(workflow, kwargs) ==
    ApplyAssignments(workflow, Assignments(kwargs))

---------------------------------------------------------------------------
(* Collaborators outside predict.py.                                       *)

\* SafetyChecker.run(images): one flag per image, in order.
safetyChecker_run(images) == [1..Len(images) -> BOOLEAN]

\* Variant: all(flags), which lets a single flagged image through.
any_all(flags) == \A i \in 1..Len(flags) : flags[i]

\* any(flags)
any(flags) == \E i \in 1..Len(flags) : flags[i]

\* What one engine run may leave at the top of OUTPUT_DIR.
Pool(by) ==
    {File("out_1.png", by, None),
     File("out_2.png", by, None),
     File(Sentinel, by, None),
     Other("latest", by),
     Dir("sub", by,
         <<File("out_3.png", by, None),
           Dir(Sentinel, by, <<File("junk.png", by, None)>>),
           File("out_4.png", by, None)>>),
     Dir(Sentinel, by,
         <<File("meta.png", by, None),
           Dir("deep", by, <<File("deep.png", by, None)>>)>>)}

OutputTrees(by) ==
    UNION {{t \in [1..n -> Pool(by)] :
               \A i, j \in 1..n : i # j => t[i].name # t[j].name}
           : n \in 0..MaxEntries}

\* ComfyUI executes its queue in order: prompts still queued from earlier
\* calls run before the one just queued, each writing into OUTPUT_DIR.
RECURSIVE StaleOutputs(_)
StaleOutputs(queue) ==
    IF queue = <<>> THEN <<>>
    ELSE <<File("stale.png", Head(queue), None)>> \o StaleOutputs(Tail(queue))

---------------------------------------------------------------------------
(* The arguments of predict other than the two images and the seed.        *)

ParamSets ==
    {[prompt |-> "a person", negative_prompt |-> "",
      number_of_images |-> 2, denoising_strength |-> 100,
      prompt_strength |-> 200, control_depth_strength |-> 80,
      instant_id_strength |-> 100, image_to_become_strength |-> 75,
      image_to_become_noise |-> 30],
     [prompt |-> "", negative_prompt |-> "hat",
      number_of_images |-> 10, denoising_strength |-> 0,
      prompt_strength |-> 300, control_depth_strength |-> 0,
      instant_id_strength |-> 1, image_to_become_strength |-> 99,
      image_to_become_noise |-> 100]}

\* The locals of a predict call that has not begun.
NoCall ==
    [pc |-> "idle", no |-> 0,
     image |-> None, image_to_become |-> None, params |-> None,
     seed_arg |-> None, disable_safety_checker |-> FALSE,
     filename |-> "", image_to_become_filename |-> "",
     has_nsfw_content_input |-> <<>>, seed |-> None,
     workflow |-> None, wf |-> None,
     files |-> <<>>, has_nsfw_content |-> <<>>, result |-> None,
     exc |-> "", error |-> "", ops |-> <<>>]

Raise(f, exc, error) ==
    [f EXCEPT !.pc = "failed", !.exc = exc, !.error = error]

Did(f, op) == [f EXCEPT !.ops = Append(@, op)]

---------------------------------------------------------------------------
(* Init: the process after setup().  The directories may be missing or may *)
(* hold what an earlier process left (by = 0).                             *)

Leftover(name) == Present(<<File(name, 0, None)>>)

Init ==
    /\ workflow_json \in Templates
    /\ engine = [queue |-> <<>>]
    /\ \E stale \in BOOLEAN :
          /\ inputDir = IF stale THEN Leftover("image_of_face.png") ELSE Absent
          /\ outputDir = IF stale THEN Leftover("out_1.png") ELSE Absent
          /\ tempDir = IF stale THEN Leftover("preview.png") ELSE Absent
    /\ callNo = 0
    /\ call = [s \in Slots |-> NoCall]

---------------------------------------------------------------------------
(* Predictor.predict, one action per step of its body.                     *)

\* predict is entered with its arguments bound (predict.py:117-175), the
\* arguments drawn from the given sets.
PredictWith(s, images, paramsets, seeds, flags) ==
    /\ call[s].pc = "idle"
    /\ callNo < MaxCalls
    /\ callNo' = callNo + 1
    /\ \E image \in images, image_to_become \in images,
          params \in paramsets, seed \in seeds,
          disable_safety_checker \in flags :
          call' = [call EXCEPT ![s] =
                      [NoCall EXCEPT !.pc = "cleanup", !.no = callNo + 1,
                                     !.image = image,
                                     !.image_to_become = image_to_become,
                                     !.params = params, !.seed_arg = seed,
                                     !.seed = seed,
                                     !.disable_safety_checker =
                                         disable_safety_checker]]
    /\ UNCHANGED <<workflow_json, engine, inputDir, outputDir, tempDir>>

Predict(s) ==
    PredictWith(s, Uploads \cup {None}, ParamSets,
                {None, Wide(0, 0), Wide(65536, 0)}, BOOLEAN)

\* Variant: os.makedirs(directory, exist_ok=True) without the rmtree.
rmtree_makedirs_keep(directory) == Present(Listing(directory))

\* predict.py:29-31 on one directory: remove it if it exists, create it.
rmtree_makedirs(directory) == Present(<<>>)

\* Variant: the reset also hands the template to the engine again, as
\* setup does.
Cleanup_reload(s) ==
    /\ call[s].pc = "cleanup"
    /\ engine' = [engine EXCEPT !.queue = <<>>]
    /\ outputDir' = rmtree_makedirs(outputDir)
    /\ inputDir' = rmtree_makedirs(inputDir)
    /\ tempDir' = rmtree_makedirs(tempDir)
    /\ call' = [call EXCEPT ![s] =
                  [Did(Did(Did(@, "clear_queue"), "load_workflow"),
                       "reset_dirs")
                      EXCEPT !.pc = "check_inputs"]]
    /\ UNCHANGED <<workflow_json, callNo>>

\* self.cleanup() (predict.py:176, 26-31)
Cleanup(s) ==
    /\ call[s].pc = "cleanup"
    /\ engine' = [engine EXCEPT !.queue = <<>>]
    /\ outputDir' = rmtree_makedirs(outputDir)
    /\ inputDir' = rmtree_makedirs(inputDir)
    /\ tempDir' = rmtree_makedirs(tempDir)
    /\ call' = [call EXCEPT ![s] =
                  [Did(Did(@, "clear_queue"), "reset_dirs")
                      EXCEPT !.pc = "check_inputs"]]
    /\ UNCHANGED <<workflow_json, callNo>>

\* predict.py:179-184: the message naming what is missing.
missing_message(image, image_to_become) ==
    IF image = None /\ image_to_become = None
    THEN "No image and image_to_become provided"
    ELSE IF image = None THEN "No image provided"
    ELSE "No image_to_become provided"

\* predict.py:178-184
CheckInputs(s) ==
    /\ call[s].pc = "check_inputs"
    /\ call' = [call EXCEPT ![s] =
                  IF @.image = None \/ @.image_to_become = None
                  THEN Raise(@, "ValueError",
                             missing_message(@.image, @.image_to_become))
                  ELSE [@ EXCEPT !.pc = "handle_image"]]
    /\ UNCHANGED <<workflow_json, engine, inputDir, outputDir, tempDir, callNo>>

\* filename = self.handle_input_file(image, "image_of_face") (predict.py:186)
HandleImage(s) ==
    /\ call[s].pc = "handle_image"
    /\ \E exif \in getexif(call[s].image) :
       LET r == handle_input_file(call[s].image, "image_of_face", call[s].no,
                                  exif)
       IN  /\ inputDir' = IF r.raised THEN inputDir
                          ELSE Present(WriteAll(Listing(inputDir), r.written))
           /\ call' = [call EXCEPT ![s] =
                         IF r.raised THEN Raise(@, r.exc, r.error)
                         ELSE [Did(@, "write_input")
                                  EXCEPT !.pc = "handle_image_to_become",
                                         !.filename = r.final_filename]]
    /\ UNCHANGED <<workflow_json, engine, outputDir, tempDir, callNo>>

\* Variant: the second image is written into a freshly made directory.
HandleImageToBecome_fresh(s) ==
    /\ call[s].pc = "handle_image_to_become"
    /\ \E exif \in getexif(call[s].image_to_become) :
       LET r == handle_input_file(call[s].image_to_become, "image_to_become",
                                  call[s].no, exif)
       IN  /\ inputDir' = IF r.raised THEN inputDir ELSE Present(r.written)
           /\ call' = [call EXCEPT ![s] =
                         IF r.raised THEN Raise(@, r.exc, r.error)
                         ELSE [Did(@, "write_input")
                                  EXCEPT !.pc = "safety_pre",
                                         !.image_to_become_filename =
                                             r.final_filename]]
    /\ UNCHANGED <<workflow_json, engine, outputDir, tempDir, callNo>>

\* image_to_become_filename = self.handle_input_file(image_to_become,
\* "image_to_become") (predict.py:187-189)
HandleImageToBecome(s) ==
    /\ call[s].pc = "handle_image_to_become"
    /\ \E exif \in getexif(call[s].image_to_become) :
       LET r == handle_input_file(call[s].image_to_become, "image_to_become",
                                  call[s].no, exif)
       IN  /\ inputDir' = IF r.raised THEN inputDir
                          ELSE Present(WriteAll(Listing(inputDir), r.written))
           /\ call' = [call EXCEPT ![s] =
                         IF r.raised THEN Raise(@, r.exc, r.error)
                         ELSE [Did(@, "write_input")
                                  EXCEPT !.pc = "safety_pre",
                                         !.image_to_become_filename =
                                             r.final_filename]]
    /\ UNCHANGED <<workflow_json, engine, outputDir, tempDir, callNo>>

\* Variant: the flag is ignored and every request is screened.
screening_always(disable_safety_checker) == TRUE

\* if not disable_safety_checker: (predict.py:192, 229)
screening(disable_safety_checker) == ~disable_safety_checker

\* predict.py:191-195
SafetyPre(s) ==
    /\ call[s].pc = "safety_pre"
    /\ LET input_files == <<call[s].image, call[s].image_to_become>> IN
       IF screening(call[s].disable_safety_checker)
       THEN \E has_nsfw_content_input \in safetyChecker_run(input_files) :
               call' = [call EXCEPT ![s] =
                  LET f == [Did(@, "classify") EXCEPT
                               !.has_nsfw_content_input = has_nsfw_content_input]
                  IN  IF any(has_nsfw_content_input)
                      THEN Raise(f, "ValueError",
                                 "NSFW content detected in input images")
                      ELSE [f EXCEPT !.pc = "seed"]]
       ELSE call' = [call EXCEPT ![s].pc = "seed"]
    /\ UNCHANGED <<workflow_json, engine, inputDir, outputDir, tempDir, callNo>>

\* Variant: "if not seed", which also replaces a supplied 0.
resolve_seed_falsy(seed) ==
    IF seed = None \/ seed = Wide(0, 0)
    THEN randint(Wide(0, 0), SeedMax) ELSE {seed}

\* predict.py:197-198: the values seed may hold after these lines.
resolve_seed(seed) ==
    IF seed = None THEN randint(Wide(0, 0), SeedMax) ELSE {seed}

\* predict.py:197-199
ResolveSeed(s) ==
    /\ call[s].pc = "seed"
    /\ \E seed \in resolve_seed(call[s].seed) :
          call' = [call EXCEPT ![s] = [@ EXCEPT !.pc = "patch", !.seed = seed]]
    /\ UNCHANGED <<workflow_json, engine, inputDir, outputDir, tempDir, callNo>>

\* The keyword arguments of the update_workflow call (predict.py:204-215).
kwargs_of(f) ==
    [filename |-> f.filename,
     image_to_become_filename |-> f.image_to_become_filename,
     prompt |-> f.params.prompt,
     negative_prompt |-> f.params.negative_prompt,
     number_of_images |-> f.params.number_of_images,
     prompt_strength |-> f.params.prompt_strength,
     control_depth_strength |-> f.params.control_depth_strength,
     instant_id_strength |-> f.params.instant_id_strength,
     image_to_become_strength |-> f.params.image_to_become_strength,
     image_to_become_noise |-> f.params.image_to_become_noise,
     denoising_strength |-> f.params.denoising_strength,
     seed |-> f.seed]

\* Variant: the template is parsed once and the shared graph is patched in
\* place, so the values of one call stay in the template.
PatchWorkflow_shared(s) ==
    /\ call[s].pc = "patch"
    /\ LET r == update_workflow(json_loads(workflow_json), kwargs_of(call[s]))
       IN  /\ workflow_json' =
                 [i \in 1..Len(workflow_json) |->
                    LET n == workflow_json[i] IN
                    Node(n.id, n.class_type,
                         [j \in 1..Len(n.inputs) |->
                            <<n.inputs[j][1],
                              r.workflow[n.id].inputs[n.inputs[j][1]]>>])]
           /\ call' = [call EXCEPT ![s] =
                         IF r.raised
                         THEN Raise([@ EXCEPT !.workflow = r.workflow],
                                    "KeyError", r.error)
                         ELSE [@ EXCEPT !.pc = "load_workflow",
                                        !.workflow = r.workflow]]
    /\ UNCHANGED <<engine, inputDir, outputDir, tempDir, callNo>>

\* workflow = json.loads(workflow_json); self.update_workflow(workflow, ...)
\* (predict.py:201-216)
PatchWorkflow(s) ==
    /\ call[s].pc = "patch"
    /\ LET r == update_workflow(json_loads(workflow_json), kwargs_of(call[s]))
       IN  call' = [call EXCEPT ![s] =
                      IF r.raised
                      THEN Raise([@ EXCEPT !.workflow = r.workflow],
                                 "KeyError", r.error)
                      ELSE [@ EXCEPT !.pc = "load_workflow",
                                     !.workflow = r.workflow]]
    /\ UNCHANGED <<workflow_json, engine, inputDir, outputDir, tempDir, callNo>>

\* A call of the engine collaborator returns (TRUE) or reports failure by
\* raising (FALSE).
engine_call == BOOLEAN

\* wf = self.comfyUI.load_workflow(workflow, check_weights=False)
\* (predict.py:218)
LoadWorkflow(s) ==
    /\ call[s].pc = "load_workflow"
    /\ \E ok \in engine_call :
          call' = [call EXCEPT ![s] =
                     IF ok
                     THEN [Did(@, "load_workflow")
                              EXCEPT !.pc = "connect", !.wf = call[s].workflow]
                     ELSE Raise(Did(@, "load_workflow"), "EngineError",
                                "load_workflow failed")]
    /\ UNCHANGED <<workflow_json, engine, inputDir, outputDir, tempDir, callNo>>

\* self.comfyUI.connect() (predict.py:219)
Connect(s) ==
    /\ call[s].pc = "connect"
    /\ \E ok \in engine_call :
          call' = [call EXCEPT ![s] =
                     IF ok THEN [Did(@, "connect") EXCEPT !.pc = "run_workflow"]
                     ELSE Raise(Did(@, "connect"), "EngineError",
                                "connect failed")]
    /\ UNCHANGED <<workflow_json, engine, inputDir, outputDir, tempDir, callNo>>

\* How often op occurs in a history.
Count(ops, op) == Cardinality({i \in DOMAIN ops : ops[i] = op})

\* Variant: a failed run is attempted once more before the error is let
\* through.
RunWorkflow_retry(s) ==
    /\ call[s].pc = "run_workflow"
    /\ \/ \E produced \in OutputTrees(call[s].no) :
             /\ outputDir' = Present(WriteAll(Listing(outputDir),
                                   StaleOutputs(engine.queue) \o produced))
             /\ tempDir' = Present(WriteEntry(Listing(tempDir),
                                   File("preview.png", call[s].no, None)))
             /\ engine' = [engine EXCEPT !.queue = <<>>]
             /\ call' = [call EXCEPT ![s] =
                           [Did(@, "run_workflow") EXCEPT !.pc = "collect"]]
       \/ /\ engine' = [engine EXCEPT !.queue = Append(@, call[s].no)]
          /\ call' = [call EXCEPT ![s] =
                        IF Count(@.ops, "run_workflow") = 0
                        THEN Did(@, "run_workflow")
                        ELSE Raise(Did(@, "run_workflow"), "EngineError",
                                   "run_workflow failed")]
          /\ UNCHANGED <<outputDir, tempDir>>
    /\ UNCHANGED <<workflow_json, inputDir, callNo>>

\* self.comfyUI.run_workflow(wf) (predict.py:220): queues the prompt and
\* blocks until the engine reports it complete, or raises; what the engine
\* writes is one of trees.
RunWorkflowWith(s, trees) ==
    /\ call[s].pc = "run_workflow"
    /\ \/ \E produced \in trees :
             /\ outputDir' = Present(WriteAll(Listing(outputDir),
                                   StaleOutputs(engine.queue) \o produced))
             /\ tempDir' = Present(WriteEntry(Listing(tempDir),
                                   File("preview.png", call[s].no, None)))
             /\ engine' = [engine EXCEPT !.queue = <<>>]
             /\ call' = [call EXCEPT ![s] =
                           [Did(@, "run_workflow") EXCEPT !.pc = "collect"]]
       \/ /\ engine' = [engine EXCEPT !.queue = Append(@, call[s].no)]
          /\ call' = [call EXCEPT ![s] =
                        Raise(Did(@, "run_workflow"), "EngineError",
                              "run_workflow failed")]
          /\ UNCHANGED <<outputDir, tempDir>>
    /\ UNCHANGED <<workflow_json, inputDir, callNo>>

RunWorkflow(s) == RunWorkflowWith(s, OutputTrees(call[s].no))

\* Variant: the collected list is returned before it is screened.
Collect_return(s) ==
    /\ call[s].pc = "collect"
    /\ call' = [call EXCEPT ![s] =
                  LET files == log_and_collect_files(Listing(outputDir),
                                                     OUTPUT_DIR)
                  IN  [Did(@, "listdir") EXCEPT
                          !.pc = "done", !.files = files, !.result = files]]
    /\ UNCHANGED <<workflow_json, engine, inputDir, outputDir, tempDir, callNo>>

\* predict.py:222-227
Collect(s) ==
    /\ call[s].pc = "collect"
    /\ call' = [call EXCEPT ![s] =
                  [Did(@, "listdir") EXCEPT
                      !.pc = "safety_post",
                      !.files = log_and_collect_files(Listing(outputDir),
                                                      OUTPUT_DIR)]]
    /\ UNCHANGED <<workflow_json, engine, inputDir, outputDir, tempDir, callNo>>

\* Variant: the condition inverted, keeping the flagged files.
remove_flagged_inverted(files, has_nsfw_content) ==
    LET kept == SelectSeq([i \in 1..Len(files) |-> i],
                          LAMBDA i : has_nsfw_content[i])
    IN  [k \in 1..Len(kept) |-> files[kept[k]]]

\* Variant: everything after the first flagged file is dropped too.
remove_flagged_truncate(files, has_nsfw_content) ==
    LET first == CHOOSE i \in 1..Len(files) :
                     has_nsfw_content[i]
                     /\ \A j \in 1..(i - 1) : ~has_nsfw_content[j]
    IN  SubSeq(files, 1, first - 1)

\* [f for i, f in enumerate(files) if not has_nsfw_content[i]]
\* (predict.py:233)
remove_flagged(files, has_nsfw_content) ==
    LET kept == SelectSeq([i \in 1..Len(files) |-> i],
                          LAMBDA i : ~has_nsfw_content[i])
    IN  [k \in 1..Len(kept) |-> files[kept[k]]]

\* predict.py:229-235
SafetyPost(s) ==
    /\ call[s].pc = "safety_post"
    /\ IF screening(call[s].disable_safety_checker)
       THEN \E has_nsfw_content \in safetyChecker_run(call[s].files) :
               call' = [call EXCEPT ![s] =
                  LET files == IF any(has_nsfw_content)
                               THEN remove_flagged(@.files, has_nsfw_content)
                               ELSE @.files
                  IN  [Did(@, "classify") EXCEPT
                          !.pc = "done",
                          !.has_nsfw_content = has_nsfw_content,
                          !.files = files, !.result = files]]
       ELSE call' = [call EXCEPT ![s] =
                       [@ EXCEPT !.pc = "done", !.result = call[s].files]]
    /\ UNCHANGED <<workflow_json, engine, inputDir, outputDir, tempDir, callNo>>

\* return files (predict.py:235), or the exception leaves predict: the
\* frame is gone and the worker is free for the next call.
Return(s) ==
    /\ call[s].pc \in {"done", "failed"}
    /\ call' = [call EXCEPT ![s] = NoCall]
    /\ UNCHANGED <<workflow_json, engine, inputDir, outputDir, tempDir, callNo>>

Step(s) ==
    \/ Predict(s)
    \/ Cleanup(s)
    \/ CheckInputs(s)
    \/ HandleImage(s)
    \/ HandleImageToBecome(s)
    \/ SafetyPre(s)
    \/ ResolveSeed(s)
    \/ PatchWorkflow(s)
    \/ LoadWorkflow(s)
    \/ Connect(s)
    \/ RunWorkflow(s)
    \/ Collect(s)
    \/ SafetyPost(s)
    \/ Return(s)

\* cog serves predictions on one worker: one call at a time.
Next == Step(1)

Spec == Init /\ [][Next]_vars

---------------------------------------------------------------------------
(* Two predict calls on one Predictor whose steps interleave: predict and  *)
(* cleanup take no lock and keep no per-call directory, so when the host   *)
(* runs two calls at once any step of either may come next.  The calls are *)
(* given a .png upload or none for each image, the default parameters and  *)
(* a supplied seed, and the engine writes nothing or one file.             *)

InitInterleaved ==
    /\ workflow_json = FullTemplate
    /\ engine = [queue |-> <<>>]
    /\ inputDir = Absent
    /\ outputDir = Absent
    /\ tempDir = Absent
    /\ callNo = 0
    /\ call = [s \in Slots |-> NoCall]

PredictInterleaved(s) ==
    PredictWith(s, {Upload("style", ".png", FALSE, FALSE, 0), None},
                {p \in ParamSets : p.negative_prompt = ""},
                {Wide(0, 0)}, BOOLEAN)

RunWorkflowInterleaved(s) ==
    RunWorkflowWith(s, {<<>>, <<File("out_1.png", call[s].no, None)>>})

StepInterleaved(s) ==
    \/ PredictInterleaved(s)
    \/ Cleanup(s)
    \/ CheckInputs(s)
    \/ HandleImage(s)
    \/ HandleImageToBecome(s)
    \/ SafetyPre(s)
    \/ ResolveSeed(s)
    \/ PatchWorkflow(s)
    \/ LoadWorkflow(s)
    \/ Connect(s)
    \/ RunWorkflowInterleaved(s)
    \/ Collect(s)
    \/ SafetyPost(s)
    \/ Return(s)

NextInterleaved == \E s \in Slots : StepInterleaved(s)

SpecInterleaved == InitInterleaved /\ [][NextInterleaved]_vars

---------------------------------------------------------------------------
(* The normalization of the two uploads (predict.py:186-189) on its own:   *)
(* a call that has reset the directories and found both images present,    *)
(* with every pair of uploads of AllUploads.                               *)

InitNormalize ==
    /\ workflow_json = FullTemplate
    /\ engine = [queue |-> <<>>]
    /\ inputDir = rmtree_makedirs(Absent)
    /\ outputDir = rmtree_makedirs(Absent)
    /\ tempDir = rmtree_makedirs(Absent)
    /\ callNo = 1
    /\ \E image \in AllUploads, image_to_become \in AllUploads,
          params \in ParamSets :
          call = [s \in Slots |->
                    IF s = 1
                    THEN [Did(Did(NoCall, "clear_queue"), "reset_dirs")
                             EXCEPT !.pc = "handle_image", !.no = 1,
                                    !.image = image,
                                    !.image_to_become = image_to_become,
                                    !.params = params]
                    ELSE NoCall]

NextNormalize == HandleImage(1) \/ HandleImageToBecome(1)

SpecNormalize == InitNormalize /\ [][NextNormalize]_vars

---------------------------------------------------------------------------
(* Vocabulary of the properties.                                           *)

\* The regular files of a directory tree: each with its path, the call
\* that created it, its position (the index of each listing entry on the
\* way down) and whether it lies under a directory named __MACOSX.
RECURSIVE FilesIn(_, _, _, _)
FilesIn(listing, directory, at, hidden) ==
    UNION {LET e == listing[i]
               path == directory \o "/" \o e.name
           IN  IF e.kind = "file"
               THEN {[path |-> path, name |-> e.name, by |-> e.by,
                      at |-> Append(at, i), hidden |-> hidden]}
               ELSE IF e.kind = "dir"
               THEN FilesIn(e.kids, path, Append(at, i),
                            hidden \/ e.name = Sentinel)
               ELSE {}
           : i \in 1..Len(listing)}

OutputFiles == FilesIn(Listing(outputDir), OUTPUT_DIR, <<>>, FALSE)

\* Position a comes before position b in a pre-order walk.
Before(a, b) ==
    \E k \in 1..Len(a) :
        /\ k <= Len(b)
        /\ a[k] < b[k]
        /\ \A j \in 1..(k - 1) : a[j] = b[j]

\* seq lists exactly the paths of the files in S, once each, in pre-order.
ListsInPreOrder(seq, S) ==
    /\ Len(seq) = Cardinality(S)
    /\ Range(seq) = {f.path : f \in S}
    /\ \A i, j \in 1..Len(seq) :
          i < j => \E f, g \in S :
                      f.path = seq[i] /\ g.path = seq[j] /\ Before(f.at, g.at)

Has(f, op) == op \in Range(f.ops)

MissingInput(f) ==
    f.pc = "failed" /\ (f.image = None \/ f.image_to_become = None)

---------------------------------------------------------------------------
(* C1.  A predict call in which the subject image, the style image or both *)
(* are absent is rejected before any side effect: when the missing-input   *)
(* error is raised the call has performed no engine operation (clear_queue *)
(* included) and has neither deleted, recreated nor written a workspace    *)
(* directory.  The code runs cleanup() first, so this fails.               *)
C1_MissingInputBeforeSideEffects ==
    \A s \in Slots :
        MissingInput(call[s]) =>
            /\ call[s].ops = <<>>
            /\ call[s].no = 1 =>
                  /\ outputDir \in {Absent, Leftover("out_1.png")}
                  /\ inputDir \in {Absent, Leftover("image_of_face.png")}
                  /\ tempDir \in {Absent, Leftover("preview.png")}

---------------------------------------------------------------------------
(* C2.  With safety screening enabled, when the pre-generation screen      *)
(* flags the subject or the style image the call fails with the unsafe     *)
(* input error and never reaches load_workflow, connect or run_workflow.   *)
C2_UnsafeInputNeverSubmitted ==
    \A s \in Slots :
        LET f == call[s] IN
        (\E i \in 1..Len(f.has_nsfw_content_input) :
             f.has_nsfw_content_input[i]) =>
            /\ f.pc = "failed"
            /\ f.exc = "ValueError"
            /\ f.error = "NSFW content detected in input images"
            /\ ~Has(f, "load_workflow")
            /\ ~Has(f, "connect")
            /\ ~Has(f, "run_workflow")
            /\ f.wf = None

\* The pre-screen flagged the style image only, and the call failed.
C2_Witness ==
    \E s \in Slots :
        /\ call[s].pc = "failed"
        /\ ~call[s].disable_safety_checker
        /\ call[s].has_nsfw_content_input = <<FALSE, TRUE>>

---------------------------------------------------------------------------
(* C3.  The workspace reset runs at the start of every call, the first     *)
(* included, and the list a call returns holds only files created in the   *)
(* output workspace during that call: nothing left by an earlier call or   *)
(* by an earlier process is ever collected.                                *)
C3_NoCrossRequestLeak ==
    \A s \in Slots :
        LET f == call[s] IN
        /\ f.pc \notin {"idle", "cleanup"} =>
              /\ Len(f.ops) >= 2
              /\ f.ops[1] = "clear_queue"
              /\ f.ops[2] = "reset_dirs"
        /\ f.pc = "check_inputs" =>
              /\ outputDir = Present(<<>>)
              /\ inputDir = Present(<<>>)
              /\ tempDir = Present(<<>>)
              /\ engine.queue = <<>>
        /\ f.pc \in {"safety_post", "done"} =>
              \A p \in Range(f.files) :
                  \E g \in OutputFiles : g.path = p /\ g.by = f.no
        /\ f.pc = "done" => f.result = f.files

\* A second call returned three files, and every file in OUTPUT_DIR is its
\* own.
C3_Witness ==
    \E s \in Slots :
        /\ call[s].pc = "done"
        /\ call[s].no = 2
        /\ Len(call[s].result) = 3
        /\ \A g \in OutputFiles : g.by = 2

---------------------------------------------------------------------------
(* What the post-generation screen saw: the files collected from           *)
(* OUTPUT_DIR, which nothing changes between collection and return.        *)

Collected == log_and_collect_files(Listing(outputDir), OUTPUT_DIR)

\* The indices the classifier did not flag.
Unflagged(flags) == {i \in 1..Len(flags) : ~flags[i]}

\* The k-th smallest member of a set of indices.
Kth(indices, k) ==
    CHOOSE i \in indices : Cardinality({j \in indices : j < i}) = k - 1

---------------------------------------------------------------------------
(* C4 as stated.  A call with both images present and supported, safety    *)
(* screening enabled and both inputs classified benign returns a non-empty *)
(* list of outputs, each classified safe by the post-generation screen.    *)
(* The list is empty when the engine wrote no file or every output was     *)
(* flagged.                                                                *)
C4_Original ==
    \A s \in Slots :
        LET f == call[s] IN
        (f.pc = "done" /\ ~f.disable_safety_checker) =>
            /\ f.result # <<>>
            /\ \A p \in Range(f.result) :
                  \E i \in 1..Len(Collected) :
                      Collected[i] = p /\ ~f.has_nsfw_content[i]

(* C4 as amended.  Such a call, when the engine run succeeds, returns a    *)
(* list of outputs every element of which was classified safe by the       *)
(* post-generation screen; the list is non-empty exactly when the screen   *)
(* classified at least one collected output safe.                          *)
C4_Amended ==
    \A s \in Slots :
        LET f == call[s] IN
        (f.pc = "done" /\ ~f.disable_safety_checker) =>
            /\ f.image # None /\ f.image_to_become # None
            /\ f.has_nsfw_content_input = <<FALSE, FALSE>>
            /\ Len(f.has_nsfw_content) = Len(Collected)
            /\ \A p \in Range(f.result) :
                  \E i \in 1..Len(Collected) :
                      Collected[i] = p /\ ~f.has_nsfw_content[i]
            /\ f.result # <<>> <=> Unflagged(f.has_nsfw_content) # {}

\* A screened call returned some outputs after one of them was flagged.
C4_Witness ==
    \E s \in Slots :
        /\ call[s].pc = "done"
        /\ ~call[s].disable_safety_checker
        /\ call[s].result # <<>>
        /\ \E i \in 1..Len(call[s].has_nsfw_content) :
              call[s].has_nsfw_content[i]

---------------------------------------------------------------------------
(* C5.  With screening enabled the post-generation screen never fails the  *)
(* request: no call fails once it has collected its outputs, and for every *)
(* collected list and flag vector the result is exactly the subsequence of *)
(* the collected outputs whose flag is false, in collected order.          *)
C5_PostScreenFilters ==
    \A s \in Slots :
        LET f == call[s]
            keep == Unflagged(f.has_nsfw_content)
        IN  /\ f.pc = "failed" => ~Has(f, "listdir")
            /\ (f.pc = "done" /\ ~f.disable_safety_checker) =>
                  /\ Len(f.has_nsfw_content) = Len(Collected)
                  /\ Len(f.result) = Cardinality(keep)
                  /\ \A k \in 1..Len(f.result) :
                        f.result[k] = Collected[Kth(keep, k)]

\* Of three collected outputs the middle one was flagged and the other two
\* were returned.
C5_Witness ==
    \E s \in Slots :
        /\ call[s].pc = "done"
        /\ call[s].has_nsfw_content = <<FALSE, TRUE, FALSE>>
        /\ Len(call[s].result) = 2

---------------------------------------------------------------------------
(* C6.  With the safety check disabled the classifier is never invoked,    *)
(* the call never fails with the unsafe-input error, and the returned list *)
(* is the full collected list.                                             *)
C6_DisabledSkipsClassifier ==
    \A s \in Slots :
        LET f == call[s] IN
        f.disable_safety_checker =>
            /\ ~Has(f, "classify")
            /\ f.has_nsfw_content_input = <<>>
            /\ f.has_nsfw_content = <<>>
            /\ f.error # "NSFW content detected in input images"
            /\ f.pc = "done" => f.result = Collected

\* An unscreened call returned three collected files.
C6_Witness ==
    \E s \in Slots :
        /\ call[s].pc = "done"
        /\ call[s].disable_safety_checker
        /\ Len(call[s].result) = 3

---------------------------------------------------------------------------
\* The frame holds a graph that update_workflow completed.
Patched(f) ==
    f.pc \in {"load_workflow", "connect", "run_workflow", "collect",
              "safety_post", "done"}
    \/ (f.pc = "failed" /\ f.exc = "EngineError")

---------------------------------------------------------------------------
\* The node identifiers written in the template text.
TemplateNodes == {workflow_json[i].id : i \in 1..Len(workflow_json)}

(* C8.  When the template lacks one of the node identifiers the patcher    *)
(* writes to, the call fails in update_workflow with a KeyError: no graph  *)
(* is handed to the engine and no result list is returned.                 *)
C8_MissingNodeFails ==
    \A s \in Slots :
        LET f == call[s] IN
        ~(PatchedNodes \subseteq TemplateNodes) =>
            /\ f.pc \in {"idle", "cleanup", "check_inputs", "handle_image",
                         "handle_image_to_become", "safety_pre", "seed",
                         "patch", "failed"}
            /\ f.workflow # None => (f.pc = "failed" /\ f.exc = "KeyError")
            /\ ~Has(f, "load_workflow") /\ ~Has(f, "connect")
            /\ ~Has(f, "run_workflow")
            /\ f.wf = None
            /\ f.result = None

\* The template has no batch node and the call failed on its key, after
\* the other seven nodes were written.
C8_Witness ==
    \E s \in Slots :
        /\ "85" \notin TemplateNodes
        /\ call[s].pc = "failed"
        /\ call[s].error = "KeyError: 85"
        /\ call[s].workflow["75"].inputs.seed = call[s].seed

---------------------------------------------------------------------------
(* C9.  Seed resolution.  A supplied seed, 0 included, is the value in the *)
(* sampler node of the graph handed to the engine; without a supplied seed *)
(* the value in the sampler node lies in [0, 2^32 - 1].                    *)
C9_SeedResolution ==
    \A s \in Slots :
        LET f == call[s] IN
        Patched(f) =>
            LET written == f.workflow["75"].inputs.seed IN
            /\ f.seed_arg # None => written = f.seed_arg
            /\ f.seed_arg = None =>
                  /\ LeqW(Wide(0, 0), written)
                  /\ LeqW(written, Wide(65535, 65535))
                  /\ written.lo \in 0..65535

\* A call given seed 0 handed its graph to the engine.
C9_Witness ==
    \E s \in Slots :
        /\ call[s].seed_arg = Wide(0, 0)
        /\ call[s].wf # None
        /\ call[s].wf["75"].inputs.seed = Wide(0, 0)

\* A call given no seed handed over a graph whose seed is 2^32 - 1.
C9_WitnessRandom ==
    \E s \in Slots :
        /\ call[s].seed_arg = None
        /\ call[s].wf # None
        /\ call[s].wf["75"].inputs.seed = SeedMax

---------------------------------------------------------------------------
(* C10 as stated.  For every output tree, collection returns exactly the   *)
(* regular files that do not lie under a directory named __MACOSX, each    *)
(* once, in pre-order, and collecting the unchanged tree again returns the *)
(* same sequence.  The code skips every entry named __MACOSX, so a regular *)
(* file of that name is left out although no such directory is above it.   *)
C10_Original ==
    \A s \in Slots :
        call[s].pc = "safety_post" =>
            /\ ListsInPreOrder(call[s].files,
                               {g \in OutputFiles : ~g.hidden})
            /\ Collected = call[s].files

(* C10 as amended.  Collection returns exactly the regular files that are  *)
(* not themselves named __MACOSX and do not lie under a directory named    *)
(* __MACOSX, each once, in pre-order; it never descends into an entry of   *)
(* that name, and collecting the unchanged tree again returns the same     *)
(* sequence.                                                               *)
C10_Amended ==
    \A s \in Slots :
        call[s].pc = "safety_post" =>
            /\ ListsInPreOrder(call[s].files,
                               {g \in OutputFiles :
                                   ~g.hidden /\ g.name # "__MACOSX"})
            /\ Collected = call[s].files

\* OUTPUT_DIR lists a directory with a nested __MACOSX and then a regular
\* file, and the directory's two files were collected before the file.
C10_Witness ==
    \E s \in Slots :
        /\ call[s].pc = "safety_post"
        /\ Len(Listing(outputDir)) = 2
        /\ Listing(outputDir)[1].name = "sub"
        /\ Listing(outputDir)[2].name = "out_1.png"
        /\ call[s].files = <<"/tmp/outputs/sub/out_3.png",
                             "/tmp/outputs/sub/out_4.png",
                             "/tmp/outputs/out_1.png">>

---------------------------------------------------------------------------
(* C11.  Normalization of one upload.                                      *)

Supported == {".jpg", ".jpeg", ".png", ".webp"}

\* The extension the claim gives the written file.
WrittenExtension(input_file) ==
    IF lower(input_file.ext) \in {".jpg", ".jpeg"} THEN ".png"
    ELSE input_file.ext

\* Whether frame f is past its normalization of the subject image, and of
\* the style image.
NormalizedFirst(f) ==
    /\ f.pc \notin {"idle", "cleanup", "check_inputs", "handle_image"}
    /\ ~MissingInput(f)

NormalizedSecond(f) ==
    /\ NormalizedFirst(f)
    /\ f.filename # ""
    /\ f.pc # "handle_image_to_become"

\* What the claim says of one normalize call of frame f, on input_file
\* under the logical name, which returned final_filename.
NormalizeAsClaimed(f, input_file, logical, final_filename) ==
    IF lower(input_file.ext) \in Supported
    THEN /\ final_filename = logical \o WrittenExtension(input_file)
         /\ \E e \in Range(Listing(inputDir)) :
               e.name = final_filename /\ e.kind = "file" /\ e.by = f.no
    ELSE /\ final_filename = ""
         /\ f.pc = "failed"
         /\ f.exc = "ValueError"

\* C11: each normalize call on a file with a supported extension (.jpg,
\* .jpeg, .png, .webp in any case) writes exactly one file into the input
\* directory, named after the logical name with .png for a JPEG and the
\* original extension otherwise, and returns that name; on any other
\* extension it fails with the unsupported-format error and the input
\* directory is as it was before the call.
C11_NormalizeWritesOneFile ==
    \A s \in Slots :
       LET f == call[s] IN
       /\ NormalizedFirst(f) =>
             NormalizeAsClaimed(f, f.image, "image_of_face", f.filename)
       /\ NormalizedSecond(f) =>
             NormalizeAsClaimed(f, f.image_to_become, "image_to_become",
                                f.image_to_become_filename)
       /\ NormalizedFirst(f) =>
             /\ NamesOf(Listing(inputDir)) =
                   {f.filename, f.image_to_become_filename} \ {""}
             /\ Len(Listing(inputDir)) =
                   Cardinality(NamesOf(Listing(inputDir)))

---------------------------------------------------------------------------
(* C19.  The rotation of a JPEG.                                           *)

\* The rotation the claim prescribes for an upload.
ClaimedRotation(input_file) ==
    IF ~input_file.block \/ input_file.malformed \/ ~input_file.tag THEN 0
    ELSE CASE input_file.o = 3 -> 180
           [] input_file.o = 6 -> 270
           [] input_file.o = 8 -> 90
           [] OTHER -> 0

\* The JPEG input_file was written under the logical name, rotated as
\* claimed.
WrittenRotated(input_file, logical) ==
    lower(input_file.ext) \in {".jpg", ".jpeg"} =>
       \E e \in Range(Listing(inputDir)) :
          /\ e.name = logical \o ".png"
          /\ e.content.src = input_file.name
          /\ e.content.rotate = ClaimedRotation(input_file)

\* C19: a JPEG is rotated by 180 for orientation 3, 270 for 6, 90 for 8 and
\* not at all for any other value or when the tag or the whole EXIF block is
\* absent or malformed; an absent or malformed block never makes the
\* normalization fail, and the file is still written.
C19_ExifRotation ==
    \A s \in Slots :
       LET f == call[s] IN
       /\ NormalizedFirst(f) => WrittenRotated(f.image, "image_of_face")
       /\ NormalizedSecond(f) =>
             WrittenRotated(f.image_to_become, "image_to_become")

\* The rotation table on the uploads whose EXIF block can be parsed.
C19_WellFormedRotation ==
    \A s \in Slots :
       LET f == call[s] IN
       /\ (NormalizedFirst(f) /\ ~f.image.malformed) =>
             WrittenRotated(f.image, "image_of_face")
       /\ (NormalizedSecond(f) /\ ~f.image_to_become.malformed) =>
             WrittenRotated(f.image_to_become, "image_to_become")

---------------------------------------------------------------------------
(* C12.  The values the submitted graph holds.                             *)

\* C12: the graph handed to the engine holds the prescribed value in each
\* targeted field: the two image fields hold the filenames normalization
\* returned; every numeric parameter and the seed are written as given; the
\* positive prompt is "<prompt>, sharp, high quality"; the negative prompt
\* is "nsfw, nude, <fragment>, soft, blurry, ugly, broken, watermark" when a
\* fragment is supplied and "nsfw, nude, soft, blurry, ugly, broken,
\* watermark" when it is not, the empty string counting as not supplied.
C12_PrescribedValues ==
    \A s \in Slots :
       LET f == call[s]
           g == f.workflow
           p == f.params
       IN  Patched(f) =>
             /\ f.filename # "" /\ g["22"].inputs["image"] = f.filename
             /\ f.image_to_become_filename # ""
             /\ g["83"].inputs["image"] = f.image_to_become_filename
             /\ g["79"].inputs["strength"] = p.control_depth_strength
             /\ g["41"].inputs["weight"] = p.instant_id_strength
             /\ g["81"].inputs["weight"] = p.image_to_become_strength
             /\ g["81"].inputs["noise"] = p.image_to_become_noise
             /\ g["75"].inputs["denoise"] = p.denoising_strength
             /\ g["75"].inputs["cfg"] = p.prompt_strength
             /\ g["75"].inputs["seed"] = f.seed
             /\ g["85"].inputs["multiply_by"] = p.number_of_images
             /\ g["2"].inputs["positive"] = p.prompt \o ", sharp, high quality"
             /\ g["2"].inputs["negative"] =
                   IF p.negative_prompt = ""
                   THEN "nsfw, nude, soft, blurry, ugly, broken, watermark"
                   ELSE "nsfw, nude, " \o p.negative_prompt
                            \o ", soft, blurry, ugly, broken, watermark"

\* A graph was handed to the engine by a call given the empty string as
\* negative prompt.
C12_Witness ==
    \E s \in Slots :
       /\ Patched(call[s])
       /\ call[s].params.negative_prompt = ""
       /\ Has(call[s], "load_workflow")
       /\ call[s].workflow["2"].inputs["negative"] =
             "nsfw, nude, soft, blurry, ugly, broken, watermark"

---------------------------------------------------------------------------
(* C13.  A failure of the engine.                                          *)

\* The times the pre-generation screen of frame f ran.
PreScreens(f) == IF f.has_nsfw_content_input = <<>> THEN 0 ELSE 1

\* C13: within one call the graph is handed to the engine, the connection
\* made and the graph run at most once each; when the engine reports a
\* failure the call ends failed with the error surfaced, having listed no
\* output, run no post-generation screen and produced no result list.
C13_EngineFailureIsFatal ==
    \A s \in Slots :
       LET f == call[s] IN
       /\ Count(f.ops, "load_workflow") <= 1
       /\ Count(f.ops, "connect") <= 1
       /\ Count(f.ops, "run_workflow") <= 1
       /\ f.exc = "EngineError" =>
             /\ f.pc = "failed"
             /\ f.error # ""
             /\ ~Has(f, "listdir")
             /\ Count(f.ops, "classify") = PreScreens(f)
             /\ f.files = <<>> /\ f.has_nsfw_content = <<>>
             /\ f.result = None

\* The engine reported a failure of the run while work of the call was
\* queued in it.
C13_Witness ==
    \E s \in Slots :
       /\ call[s].pc = "failed" /\ call[s].exc = "EngineError"
       /\ Has(call[s], "run_workflow")
       /\ call[s].no \in Range(engine.queue)

---------------------------------------------------------------------------
(* C14.  The order of the phases of a call.                                *)

\* The phase whose work the statement at pc belongs to, by its place in
\* RESET, INPUTS_READY, SAFETY_PRE, GRAPH_READY, SUBMITTED, RUNNING,
\* COMPLETE, SAFETY_POST, DONE.
PhaseRank(pc) ==
    CASE pc = "cleanup" -> 1
      [] pc \in {"check_inputs", "handle_image", "handle_image_to_become"} -> 2
      [] pc = "safety_pre" -> 3
      [] pc \in {"seed", "patch"} -> 4
      [] pc \in {"load_workflow", "connect"} -> 5
      [] pc = "run_workflow" -> 6
      [] pc = "collect" -> 7
      [] pc = "safety_post" -> 8
      [] pc = "done" -> 9

\* The observable actions of a call that reaches DONE, in the order of the
\* phases; the screens are there when screening is enabled.
PhaseActions(f) ==
    LET screen == IF f.disable_safety_checker THEN <<>> ELSE <<"classify">>
    IN  <<"clear_queue", "reset_dirs", "write_input", "write_input">>
            \o screen
            \o <<"load_workflow", "connect", "run_workflow", "listdir">>
            \o screen

\* The actions of the phases before GRAPH_READY.
BeforeGraph(f) == IF f.disable_safety_checker THEN 4 ELSE 5

IsPrefix(a, b) == Len(a) <= Len(b) /\ a = SubSeq(b, 1, Len(a))

\* What one step does to the position of the call in slot s.
PhaseStep(s) ==
    LET f == call[s]
        g == call'[s]
    IN  g # f =>
          CASE f.pc = "idle" -> g.pc = "cleanup"
            [] f.pc \in {"done", "failed"} ->
                 /\ g = NoCall
                 /\ UNCHANGED <<workflow_json, engine, inputDir, outputDir,
                                tempDir>>
            [] OTHER ->
                 \/ g.pc = "failed"
                 \/ /\ g.pc \notin {"idle", "failed"}
                    /\ PhaseRank(g.pc) \in {PhaseRank(f.pc), PhaseRank(f.pc) + 1}
                    /\ g.pc # f.pc

\* C14: every call goes through RESET, INPUTS_READY, SAFETY_PRE (when
\* enabled), GRAPH_READY, SUBMITTED, RUNNING, COMPLETE, SAFETY_POST (when
\* enabled), DONE in this order, never skipping, reordering or revisiting
\* one; FAILED is terminal and DONE is reached only through COMPLETE; the
\* pre-screen comes after both normalizations and before the seed is
\* resolved and the graph patched, and the outputs are listed only after the
\* engine run returned.
C14_PhaseOrder ==
    /\ [][\A s \in Slots : PhaseStep(s)]_vars
    /\ [](\A s \in Slots :
             LET f == call[s] IN
             /\ IsPrefix(f.ops, PhaseActions(f))
             /\ f.pc = "done" => f.ops = PhaseActions(f)
             /\ f.pc \in {"seed", "patch"} =>
                   f.ops = SubSeq(PhaseActions(f), 1, BeforeGraph(f))
             /\ f.pc \in {"idle", "cleanup", "check_inputs", "handle_image",
                           "handle_image_to_become", "safety_pre", "seed"} =>
                   f.workflow = None
             /\ f.pc \in {"idle", "cleanup", "check_inputs", "handle_image",
                           "handle_image_to_become", "safety_pre"} =>
                   f.seed = f.seed_arg)

\* A screened call reached DONE having performed the actions of every
\* phase.
C14_Witness ==
    \E s \in Slots :
       /\ call[s].pc = "done"
       /\ ~call[s].disable_safety_checker
       /\ Len(call[s].ops) = 10

---------------------------------------------------------------------------
(* C15.  A call that fails on its inputs.                                  *)

\* Frame f failed because an image is missing or its format unsupported.
FailedAtInputs(f) ==
    /\ f.pc = "failed"
    /\ f.exc = "ValueError"
    /\ f.has_nsfw_content_input = <<>>

---------------------------------------------------------------------------
(* C16.  What patching leaves of the template.                             *)

\* The fields the patcher writes in node id.
Targeted(id) ==
    CASE id \in {"22", "83"} -> {"image"}
      [] id = "2" -> {"positive", "negative"}
      [] id = "79" -> {"strength"}
      [] id = "41" -> {"weight"}
      [] id = "81" -> {"weight", "noise"}
      [] id = "75" -> {"denoise", "seed", "cfg"}
      [] id = "85" -> {"multiply_by"}
      [] OTHER -> {}

\* C16: patching never adds to the graph: the patched graph has exactly the
\* node identifiers of the template and, in each node, exactly the field
\* names of the template, also when a targeted node lacks the targeted
\* field; every field that is not targeted keeps its template value.
C16_PatchNeverAdds ==
    \A s \in Slots :
       LET g == call[s].workflow
           template == json_loads(workflow_json)
       IN  g # None =>
             /\ DOMAIN g = TemplateNodes
             /\ \A id \in DOMAIN g :
                   /\ DOMAIN g[id].inputs = DOMAIN template[id].inputs
                   /\ g[id].class_type = template[id].class_type
                   /\ \A field \in DOMAIN g[id].inputs \ Targeted(id) :
                         g[id].inputs[field] = template[id].inputs[field]

\* The same on the templates in which every targeted node that is present
\* has its targeted fields.
C16_ExistingFieldsOnly ==
    (\A i \in 1..Len(workflow_json) :
        Targeted(workflow_json[i].id)
            \subseteq {workflow_json[i].inputs[j][1] :
                          j \in 1..Len(workflow_json[i].inputs)})
    => C16_PatchNeverAdds

---------------------------------------------------------------------------
(* C17.  The graph a call submits depends on nothing an earlier call did.  *)

\* The value the keyword arguments k prescribe for a targeted field.
Prescribed(id, field, k) ==
    CASE id = "22" -> k.filename
      [] id = "83" -> k.image_to_become_filename
      [] id = "2" /\ field = "positive" -> k.prompt \o ", sharp, high quality"
      [] id = "2" /\ field = "negative" ->
           IF k.negative_prompt = ""
           THEN "nsfw, nude, soft, blurry, ugly, broken, watermark"
           ELSE "nsfw, nude, " \o k.negative_prompt
                    \o ", soft, blurry, ugly, broken, watermark"
      [] id = "79" -> k.control_depth_strength
      [] id = "41" -> k.instant_id_strength
      [] id = "81" /\ field = "weight" -> k.image_to_become_strength
      [] id = "81" /\ field = "noise" -> k.image_to_become_noise
      [] id = "75" /\ field = "denoise" -> k.denoising_strength
      [] id = "75" /\ field = "seed" -> k.seed
      [] id = "75" /\ field = "cfg" -> k.prompt_strength
      [] id = "85" -> k.number_of_images

\* The one graph that a template and keyword arguments k determine.
GraphOf(template, k) ==
    [id \in DOMAIN template |->
        [class_type |-> template[id].class_type,
         inputs |->
            [field \in DOMAIN template[id].inputs \cup Targeted(id) |->
                IF field \in Targeted(id) THEN Prescribed(id, field, k)
                ELSE template[id].inputs[field]]]]

\* C17: no mutable graph state crosses calls: the template text is never
\* changed, and the graph a call submits is the one graph determined by the
\* template and the call's own filenames, parameters and resolved seed, so
\* that calls with the same arguments and seed submit the same graph
\* whatever earlier calls, completed or failed while patching, wrote.
C17_NoSharedGraphState ==
    /\ [][workflow_json' = workflow_json]_vars
    /\ [](\A s \in Slots :
             Has(call[s], "load_workflow") =>
                call[s].workflow = GraphOf(json_loads(workflow_json),
                                           kwargs_of(call[s])))

\* The second call of the process has submitted its graph.
C17_Witness ==
    \E s \in Slots :
       /\ call[s].no = 2
       /\ Has(call[s], "load_workflow")
       /\ call[s].workflow # json_loads(workflow_json)

---------------------------------------------------------------------------
(* C18.  The reset is destructive and shared by all calls.                 *)

\* The positions of a call from its first normalization to its collection.
InFlight ==
    {"handle_image_to_become", "safety_pre", "seed", "patch",
     "load_workflow", "connect", "run_workflow", "collect"}

\* Directory d holds the file `name` as call `no` wrote it.
HasOwn(d, name, no) ==
    \E e \in Range(Listing(d)) : e.name = name /\ e.by = no

\* The paths of the output files call `no` produced that are in d.
OwnOutputs(d, no) ==
    {x.path : x \in {y \in FilesIn(Listing(d), OUTPUT_DIR, <<>>, FALSE) :
                       y.by = no}}

\* This step takes from the call in slot s an input file it wrote, or an
\* output file produced for it that it has not collected yet.
LosesFiles(s) ==
    LET f == call[s] IN
    /\ f.pc \in InFlight
    /\ \/ \E name \in {f.filename, f.image_to_become_filename} \ {""} :
             HasOwn(inputDir, name, f.no) /\ ~HasOwn(inputDir', name, f.no)
       \/ ~(OwnOutputs(outputDir, f.no) \subseteq OwnOutputs(outputDir', f.no))

\* This step is the reset, a normalization or the engine run of a call in
\* another slot than s.
StepOfAnother(s) ==
    /\ call'[s] = call[s]
    /\ \E t \in Slots \ {s} :
          /\ call'[t] # call[t]
          /\ call[t].pc \in {"cleanup", "handle_image",
                           "handle_image_to_become", "run_workflow"}

\* C18: the reset is destructive and not kept apart per call.  No step of a
\* call removes that call's own input or output files between its
\* normalization and its collection, so calls that are strictly serialized
\* keep their files; the files of a call in flight are lost only to a step
\* of another call that interleaves with it, which the code does nothing to
\* prevent.
C18_OnlyInterleavingLosesFiles ==
    [][\A s \in Slots : LosesFiles(s) => StepOfAnother(s)]_vars

\* Two calls interleaved: one is about to screen a listing that holds a file
\* produced for the other, and the input file it wrote is no longer there
\* as it wrote it.
C18_Witness ==
    \E s \in Slots :
       LET f == call[s] IN
       /\ f.pc = "safety_post"
       /\ \E t \in Slots \ {s} :
             /\ call[t].no # 0
             /\ Range(f.files) \cap OwnOutputs(outputDir, call[t].no) # {}
       /\ f.filename # ""
       /\ ~HasOwn(inputDir, f.filename, f.no)

====
